---- MODULE Spec2Model ----
(***************************************************************************)
(* A model of the grep command of mdgo/grep (boolean variant, Grep and     *)
(* grepFile returning bool).  One behaviour is a process in which Grep is  *)
(* invoked one or more times, as cmdMain and TestGrep do: the flags, the   *)
(* pattern and the path arguments are chosen per invocation, the package   *)
(* level variable printName survives from one invocation to the next.      *)
(*                                                                         *)
(* Texts (lines, patterns) are sequences of one-character strings, so that *)
(* matching is computed.  Standard output is a sequence of written lines;  *)
(* each written line records which Fprintln produced it (kind) and the     *)
(* prefixes that the Fprint calls before it produced.                      *)
(***************************************************************************)
EXTENDS Integers, Sequences, FiniteSets, TLC

\* Largest number of path arguments given to one invocation.
MaxGlobs == 2

-----------------------------------------------------------------------------
(* The environment: texts, patterns, the file system, standard input.      *)

NoText == <<>>

PatAlt == <<"a", "|", "c">>
PatBad == <<"(">>
Patterns == {PatAlt, PatBad}

\* A file: the lines its scanner delivers, whether reading ends in an error,
\* and whether os.Open succeeds on it.
File(ls, rerr) == [lines |-> ls, readErr |-> rerr]

FileNames == {"fa", "fn", "r"}

FS(n) ==
    CASE n = "fa" -> File(<< <<"b">>, <<"a", "b">>, <<"c">> >>, FALSE)
      [] n = "fn" -> File(<< <<"b">>, NoText >>, FALSE)
      [] n = "r"  -> File(<< <<"a">> >>, TRUE)

StdinFile == File(<< <<"a", "b">>, <<"b">> >>, FALSE)

\* The path arguments: names of files, a glob with two matches (fa and fn),
\* a path that does not exist, and a malformed glob.
Globs == {"fa", "f*", "r", "x", "["}

FlagNames ==
    {"CountOnly", "FilesWithMatch", "FilesWithoutMatch", "Invert",
     "LineNumbers", "NoErrorMessages", "NoFilename", "Quiet"}

FlagSets == [FlagNames -> BOOLEAN]

ArgLists == UNION {[1..n -> Globs] : n \in 0..MaxGlobs}

-----------------------------------------------------------------------------
(* Library functions, as far as the program uses them.                     *)

\* regexp.Compile fails on an unmatched parenthesis.
RECURSIVE ParenDepth(_, _)
ParenDepth(p, d) ==
    IF d < 0 THEN d
    ELSE IF p = <<>> THEN d
    ELSE ParenDepth(Tail(p),
                    IF Head(p) = "(" THEN d + 1
                    ELSE IF Head(p) = ")" THEN d - 1 ELSE d)

CompileFails(p) == ParenDepth(p, 0) # 0

\* The compiled pattern: the set of its alternatives, each a literal text.
RECURSIVE Alternatives(_, _)
Alternatives(p, acc) ==
    IF p = <<>> THEN {acc}
    ELSE IF Head(p) = "|" THEN {acc} \cup Alternatives(Tail(p), <<>>)
    ELSE Alternatives(Tail(p), Append(acc, Head(p)))

Compile(p) == Alternatives(p, <<>>)

Occurs(s, t) ==
    \E i \in 0..(Len(t) - Len(s)) : SubSeq(t, i + 1, i + Len(s)) = s

\* pattern.MatchString(line): some substring of line matches.
MatchString(R, line) == \E alt \in R : Occurs(alt, line)

\* filepath.Glob: the sorted matches, or an error for a malformed pattern.
GlobFails(g) == g = "["

GlobPaths(g) ==
    IF g = "f*" THEN <<"fa", "fn">>
    ELSE IF g \in FileNames THEN <<g>>
    ELSE <<>>

\* os.Open succeeds on the files that exist.
OpenFails(n) == n \notin FileNames

-----------------------------------------------------------------------------
(* What is written.                                                        *)

\* fmt.Fprint(stdout, name); Fprint(":"); Fprint(lineNumber); Fprint(":");
\* Fprintln(line)
BodyLine(pre, num, line) ==
    [kind |-> "line", name |-> pre, num |-> num, text |-> line]

\* fmt.Fprintln(stdout, name)
NameLine(n) == [kind |-> "name", name |-> <<n>>, num |-> <<>>, text |-> NoText]

\* fmt.Fprint(stdout, name); Fprint(":"); Fprintln(count)
CountLine(pre, c) ==
    [kind |-> "count", name |-> pre, num |-> <<c>>, text |-> NoText]

ErrMsg(k, n) == [kind |-> k, name |-> n]

\* A write to a sink: ioutil.Discard keeps nothing.
Emit(sink, buf, w) == IF sink = "discard" THEN buf ELSE buf \o w

-----------------------------------------------------------------------------
(* grepFile.                                                               *)

NamePrefix(pn, n) == IF pn THEN <<n>> ELSE <<>>

NumPrefix(F, ln) == IF F.LineNumbers THEN <<ln>> ELSE <<>>

\* Selected with -v forgotten.
SelectedIgnoringInvert(F, R, line) == MatchString(R, line)

\* The test at the head of the loop body: the line is skipped when
\* pattern.MatchString(line) == Flags.Invert.
Selected(F, R, line) == MatchString(R, line) # F.Invert

Step(ctl, ret, cnt, w) == [ctl |-> ctl, ret |-> ret, count |-> cnt, write |-> w]

\* The loop body without the test that skips a line that is not selected.
LoopBodyWithoutSkip(F, pn, R, n, line, ln, cnt) ==
    IF F.FilesWithoutMatch THEN Step("return", FALSE, cnt, <<>>)
    ELSE IF F.Quiet THEN Step("return", TRUE, cnt, <<>>)
    ELSE IF F.FilesWithMatch
        THEN Step("return", TRUE, cnt, IF pn THEN <<NameLine(n)>> ELSE <<>>)
    ELSE IF F.CountOnly THEN Step("continue", FALSE, cnt + 1, <<>>)
    ELSE Step("continue", FALSE, cnt + 1,
              <<BodyLine(NamePrefix(pn, n), NumPrefix(F, ln), line)>>)

\* The loop body numbering the selected lines instead of the lines read.
LoopBodyNumberingSelected(F, pn, R, n, line, ln, cnt) ==
    IF ~Selected(F, R, line) THEN Step("continue", FALSE, cnt, <<>>)
    ELSE IF F.FilesWithoutMatch THEN Step("return", FALSE, cnt, <<>>)
    ELSE IF F.Quiet THEN Step("return", TRUE, cnt, <<>>)
    ELSE IF F.FilesWithMatch
        THEN Step("return", TRUE, cnt, IF pn THEN <<NameLine(n)>> ELSE <<>>)
    ELSE IF F.CountOnly THEN Step("continue", FALSE, cnt + 1, <<>>)
    ELSE Step("continue", FALSE, cnt + 1,
              <<BodyLine(NamePrefix(pn, n), NumPrefix(F, cnt + 1), line)>>)

\* The loop body with the -q test before the -L test.
LoopBodyQuietFirst(F, pn, R, n, line, ln, cnt) ==
    IF ~Selected(F, R, line) THEN Step("continue", FALSE, cnt, <<>>)
    ELSE IF F.Quiet THEN Step("return", TRUE, cnt, <<>>)
    ELSE IF F.FilesWithoutMatch THEN Step("return", FALSE, cnt, <<>>)
    ELSE IF F.FilesWithMatch
        THEN Step("return", TRUE, cnt, IF pn THEN <<NameLine(n)>> ELSE <<>>)
    ELSE IF F.CountOnly THEN Step("continue", FALSE, cnt + 1, <<>>)
    ELSE Step("continue", FALSE, cnt + 1,
              <<BodyLine(NamePrefix(pn, n), NumPrefix(F, ln), line)>>)

\* The loop body without the return under -l.
LoopBodyListWithoutReturn(F, pn, R, n, line, ln, cnt) ==
    IF ~Selected(F, R, line) THEN Step("continue", FALSE, cnt, <<>>)
    ELSE IF F.FilesWithoutMatch THEN Step("return", FALSE, cnt, <<>>)
    ELSE IF F.Quiet THEN Step("return", TRUE, cnt, <<>>)
    ELSE IF F.FilesWithMatch
        THEN Step("continue", FALSE, cnt + 1,
                  IF pn THEN <<NameLine(n)>> ELSE <<>>)
    ELSE IF F.CountOnly THEN Step("continue", FALSE, cnt + 1, <<>>)
    ELSE Step("continue", FALSE, cnt + 1,
              <<BodyLine(NamePrefix(pn, n), NumPrefix(F, ln), line)>>)

\* One pass of the loop body on the line numbered ln (already incremented),
\* with cnt selected lines counted so far.
LoopBody(F, pn, R, n, line, ln, cnt) ==
    IF ~Selected(F, R, line) THEN Step("continue", FALSE, cnt, <<>>)
    ELSE IF F.FilesWithoutMatch THEN Step("return", FALSE, cnt, <<>>)
    ELSE IF F.Quiet THEN Step("return", TRUE, cnt, <<>>)
    ELSE IF F.FilesWithMatch
        THEN Step("return", TRUE, cnt, IF pn THEN <<NameLine(n)>> ELSE <<>>)
    ELSE IF F.CountOnly THEN Step("continue", FALSE, cnt + 1, <<>>)
    ELSE Step("continue", FALSE, cnt + 1,
              <<BodyLine(NamePrefix(pn, n), NumPrefix(F, ln), line)>>)

\* The code after the loop with the -c test before the -L test.
PostLoopWriteCountFirst(F, pn, n, cnt) ==
    IF F.CountOnly
        THEN IF cnt > 0 THEN <<CountLine(NamePrefix(pn, n), cnt)>> ELSE <<>>
    ELSE IF F.FilesWithoutMatch
        THEN IF pn THEN <<NameLine(n)>> ELSE <<>>
    ELSE <<>>

\* What is written after the loop.
PostLoopWrite(F, pn, n, cnt) ==
    IF F.FilesWithoutMatch
        THEN IF pn THEN <<NameLine(n)>> ELSE <<>>
    ELSE IF F.CountOnly
        THEN IF cnt > 0 THEN <<CountLine(NamePrefix(pn, n), cnt)>> ELSE <<>>
    ELSE <<>>

\* scanner.Err() after the loop.
PostLoopErr(f) == IF f.readErr THEN <<ErrMsg("read", "")>> ELSE <<>>

\* The value returned after the loop.
PostLoopReturn(cnt) == cnt > 0

-----------------------------------------------------------------------------
(* Grep and cmdMain.                                                       *)

\* printName, set for each glob that expands.
PrintNameFor(F, nglobs, npaths) ==
    ~F.NoFilename /\ (nglobs > 1 \/ npaths > 1)

\* A glob without a matching file dropped.
PathsForWithoutFallback(g) == GlobPaths(g)

\* A glob without a matching file is tried as a path.
PathsFor(g) == IF GlobPaths(g) = <<>> THEN <<g>> ELSE GlobPaths(g)

\* Standard output left as it was under -q.
StdoutNotSwapped(F, so) == so

\* The sinks after the pattern compiled.
StdoutAfterCompile(F, so) == IF F.Quiet THEN "discard" ELSE so

\* Standard error left as it was under -s.
StderrOnlyUnderQuiet(F, se) == IF F.Quiet THEN "discard" ELSE se

StderrAfterCompile(F, se) ==
    IF F.Quiet THEN "discard"
    ELSE IF F.NoErrorMessages THEN "discard" ELSE se

\* The sinks swapped before the pattern is compiled.
CompileErrSinkSwappedFirst(F, se) == StderrAfterCompile(F, se)

\* The sink the error of regexp.Compile is written to: stderr as it is before
\* the sinks are swapped.
CompileErrSink(F, se) == se

\* Grep returning true only when more than one file matched.
GrepReturnValueOffByOne(mf) == mf > 1

GrepReturnValue(mf) == mf > 0

\* cmdMain: the exit code for what Grep returned.
cmdMainExit(r) == IF r THEN 0 ELSE 2

-----------------------------------------------------------------------------
(* A whole invocation as a function of its inputs: the same loops, run to  *)
(* their end.  o is what standard output holds so far.                    *)

\* grepFile from line ln + 1 on: the value returned and standard output.
RECURSIVE ScanFrom(_, _, _, _, _, _, _, _, _)
ScanFrom(F, pn, R, so, n, f, ln, cnt, o) ==
    IF ln = Len(f.lines)
        THEN [ret |-> PostLoopReturn(cnt),
              out |-> Emit(so, o, PostLoopWrite(F, pn, n, cnt))]
        ELSE LET st == LoopBody(F, pn, R, n, f.lines[ln + 1], ln + 1, cnt)
             IN  IF st.ctl = "return"
                     THEN [ret |-> st.ret, out |-> Emit(so, o, st.write)]
                     ELSE ScanFrom(F, pn, R, so, n, f, ln + 1, st.count,
                                   Emit(so, o, st.write))

\* The loop over the paths ps of one glob, from the k-th on.
RECURSIVE PathLoop(_, _, _, _, _, _, _, _)
PathLoop(F, pn, R, so, ps, k, mf, o) ==
    IF k > Len(ps) THEN [matchFiles |-> mf, out |-> o]
    ELSE IF OpenFails(ps[k]) THEN PathLoop(F, pn, R, so, ps, k + 1, mf, o)
    ELSE LET r == ScanFrom(F, pn, R, so, ps[k], FS(ps[k]), 0, 0, o)
         IN  PathLoop(F, pn, R, so, ps, k + 1,
                      IF r.ret THEN mf + 1 ELSE mf, r.out)

\* The loop over the globs a, from the g-th on.
RECURSIVE GlobLoop(_, _, _, _, _, _, _)
GlobLoop(F, R, so, a, g, mf, o) ==
    IF g > Len(a) THEN [ret |-> GrepReturnValue(mf), out |-> o]
    ELSE IF GlobFails(a[g]) THEN GlobLoop(F, R, so, a, g + 1, mf, o)
    ELSE LET pn == PrintNameFor(F, Len(a), Len(GlobPaths(a[g])))
             r == PathLoop(F, pn, R, so, PathsFor(a[g]), 1, mf, o)
         IN  GlobLoop(F, R, so, a, g + 1, r.matchFiles, r.out)

\* Grep(p, a) under flags F, printName being pn0 at the call.
GrepRun(F, p, a, pn0) ==
    IF CompileFails(p) THEN [ret |-> FALSE, out |-> <<>>]
    ELSE LET so == StdoutAfterCompile(F, "buffer")
         IN  IF Len(a) = 0
                 THEN ScanFrom(F, pn0, Compile(p), so, "", StdinFile, 0, 0,
                               <<>>)
                 ELSE GlobLoop(F, Compile(p), so, a, 1, 0, <<>>)

-----------------------------------------------------------------------------
VARIABLES
    Flags,       \* the flags of this invocation
    pattern,     \* the pattern argument
    globs,       \* the path arguments
    printName, stdout, stderr,   \* package-level variables
    out, err,    \* what the buffers behind standard output and error hold
    pc,          \* where the invocation is
    re,          \* the compiled pattern
    gi, paths, pi, matchFiles,   \* the loops of Grep
    open,        \* the files opened and not yet closed, in opening order
    name, src, lineNumber, count,   \* grepFile on the current source
    result, exitCode,
    from,        \* length of out when the current source was begun
    scanned,     \* history: the sources grepFile has returned for
    globbed,     \* history: the globs given to filepath.Glob
    opens        \* history: the paths given to os.Open

vars == <<Flags, pattern, globs, printName, stdout, stderr, out, err, pc, re,
          gi, paths, pi, matchFiles, open, name, src, lineNumber, count,
          result, exitCode, from, scanned, globbed, opens>>

NoFlags == [f \in FlagNames |-> FALSE]

NoFile == File(<<>>, FALSE)

Init ==
    /\ Flags = NoFlags
    /\ pattern = PatAlt
    /\ globs = <<>>
    /\ printName = FALSE
    /\ stdout = "buffer"
    /\ stderr = "buffer"
    /\ out = <<>>
    /\ err = <<>>
    /\ pc = "start"
    /\ re = {}
    /\ gi = 1
    /\ paths = <<>>
    /\ pi = 1
    /\ matchFiles = 0
    /\ open = <<>>
    /\ name = ""
    /\ src = NoFile
    /\ lineNumber = 0
    /\ count = 0
    /\ result = FALSE
    /\ exitCode = 0
    /\ from = 0
    /\ scanned = <<>>
    /\ globbed = <<>>
    /\ opens = <<>>

\* The caller: flags set, sinks set to fresh buffers, Grep called.  printName
\* is left as the previous invocation left it.
Invoke ==
    /\ pc = "start"
    /\ \E F \in FlagSets, p \in Patterns, a \in ArgLists :
        /\ Flags' = F
        /\ pattern' = p
        /\ globs' = a
    /\ stdout' = "buffer"
    /\ stderr' = "buffer"
    /\ out' = <<>>
    /\ err' = <<>>
    /\ pc' = "compile"
    /\ UNCHANGED <<printName, re, gi, paths, pi, matchFiles, open, name, src,
                   lineNumber, count, result, exitCode, from, scanned,
                   globbed, opens>>

\* The invocation is over and the caller goes on to its next one: nothing
\* of this one is kept but the package-level printName.
Finish ==
    /\ pc = "done"
    /\ Flags' = NoFlags
    /\ pattern' = PatAlt
    /\ globs' = <<>>
    /\ stdout' = "buffer"
    /\ stderr' = "buffer"
    /\ out' = <<>>
    /\ err' = <<>>
    /\ pc' = "start"
    /\ re' = {}
    /\ gi' = 1
    /\ paths' = <<>>
    /\ pi' = 1
    /\ matchFiles' = 0
    /\ open' = <<>>
    /\ name' = ""
    /\ src' = NoFile
    /\ lineNumber' = 0
    /\ count' = 0
    /\ result' = FALSE
    /\ exitCode' = 0
    /\ from' = 0
    /\ scanned' = <<>>
    /\ globbed' = <<>>
    /\ opens' = <<>>
    /\ UNCHANGED printName

\* Grep returns r: the deferred Close calls run, cmdMain maps r to the exit
\* code.
Returns(r) ==
    /\ result' = r
    /\ exitCode' = cmdMainExit(r)
    /\ open' = <<>>
    /\ pc' = "done"

\* grepFile is entered for source n with content f.
Enters(n, f) ==
    /\ name' = n
    /\ src' = f
    /\ lineNumber' = 0
    /\ count' = 0
    /\ from' = Len(out)
    /\ pc' = "scan"

\* regexp.Compile fails.
CompileFail ==
    /\ pc = "compile"
    /\ CompileFails(pattern)
    /\ err' = Emit(CompileErrSink(Flags, stderr), err,
                   <<ErrMsg("compile", "")>>)
    /\ Returns(FALSE)
    /\ UNCHANGED <<Flags, pattern, globs, printName, stdout, stderr, out, re,
                   gi, paths, pi, matchFiles, name, src, lineNumber, count,
                   from, scanned, globbed, opens>>

\* regexp.Compile succeeds, the sinks are swapped, and Grep goes on to
\* standard input or to the first glob.
CompileOk ==
    /\ pc = "compile"
    /\ ~CompileFails(pattern)
    /\ re' = Compile(pattern)
    /\ stdout' = StdoutAfterCompile(Flags, stdout)
    /\ stderr' = StderrAfterCompile(Flags, stderr)
    /\ IF Len(globs) = 0
          THEN /\ Enters("", StdinFile)
               /\ UNCHANGED <<gi, matchFiles>>
          ELSE /\ matchFiles' = 0
               /\ gi' = 1
               /\ pc' = "glob"
               /\ UNCHANGED <<name, src, lineNumber, count, from>>
    /\ UNCHANGED <<Flags, pattern, globs, printName, out, err, paths, pi,
                   open, result, exitCode, scanned, globbed, opens>>

\* filepath.Glob fails on the next glob.
GlobErr ==
    /\ pc = "glob"
    /\ gi <= Len(globs)
    /\ GlobFails(globs[gi])
    /\ globbed' = Append(globbed, globs[gi])
    /\ err' = Emit(stderr, err, <<ErrMsg("glob", globs[gi])>>)
    /\ gi' = gi + 1
    /\ UNCHANGED <<Flags, pattern, globs, printName, stdout, stderr, out, pc,
                   re, paths, pi, matchFiles, open, name, src, lineNumber,
                   count, result, exitCode, from, scanned, opens>>

\* The next glob expands.
GlobOk ==
    /\ pc = "glob"
    /\ gi <= Len(globs)
    /\ ~GlobFails(globs[gi])
    /\ globbed' = Append(globbed, globs[gi])
    /\ printName' = PrintNameFor(Flags, Len(globs), Len(GlobPaths(globs[gi])))
    /\ paths' = PathsFor(globs[gi])
    /\ pi' = 1
    /\ pc' = "open"
    /\ UNCHANGED <<Flags, pattern, globs, stdout, stderr, out, err, re, gi,
                   matchFiles, open, name, src, lineNumber, count, result,
                   exitCode, from, scanned, opens>>

\* os.Open fails and Grep gives up.
OpenFailAborts ==
    /\ pc = "open"
    /\ pi <= Len(paths)
    /\ OpenFails(paths[pi])
    /\ opens' = Append(opens, paths[pi])
    /\ err' = Emit(stderr, err, <<ErrMsg("open", paths[pi])>>)
    /\ Returns(FALSE)
    /\ UNCHANGED <<Flags, pattern, globs, printName, stdout, stderr, out, re,
                   gi, paths, pi, matchFiles, name, src, lineNumber, count,
                   from, scanned, globbed>>

\* os.Open fails on the next path.
OpenFail ==
    /\ pc = "open"
    /\ pi <= Len(paths)
    /\ OpenFails(paths[pi])
    /\ opens' = Append(opens, paths[pi])
    /\ err' = Emit(stderr, err, <<ErrMsg("open", paths[pi])>>)
    /\ pi' = pi + 1
    /\ UNCHANGED <<Flags, pattern, globs, printName, stdout, stderr, out, pc,
                   re, gi, paths, matchFiles, open, name, src, lineNumber,
                   count, result, exitCode, from, scanned, globbed>>

\* os.Open succeeds, its Close is deferred, grepFile is called.
OpenOk ==
    /\ pc = "open"
    /\ pi <= Len(paths)
    /\ ~OpenFails(paths[pi])
    /\ opens' = Append(opens, paths[pi])
    /\ open' = Append(open, paths[pi])
    /\ Enters(paths[pi], FS(paths[pi]))
    /\ UNCHANGED <<Flags, pattern, globs, printName, stdout, stderr, out, err,
                   re, gi, paths, pi, matchFiles, result, exitCode, scanned,
                   globbed>>

\* The paths of this glob are done.
PathsDone ==
    /\ pc = "open"
    /\ pi > Len(paths)
    /\ gi' = gi + 1
    /\ pc' = "glob"
    /\ UNCHANGED <<Flags, pattern, globs, printName, stdout, stderr, out, err,
                   re, paths, pi, matchFiles, open, name, src, lineNumber,
                   count, result, exitCode, from, scanned, globbed, opens>>

\* The globs are done.
GrepReturn ==
    /\ pc = "glob"
    /\ gi > Len(globs)
    /\ Returns(GrepReturnValue(matchFiles))
    /\ UNCHANGED <<Flags, pattern, globs, printName, stdout, stderr, out, err,
                   re, gi, paths, pi, matchFiles, name, src, lineNumber, count,
                   from, scanned, globbed, opens>>

\* grepFile returns r to Grep, after ln lines read and cnt counted, with
\* standard output holding o.
GrepFileReturns(r, early, ln, cnt, o) ==
    /\ scanned' = Append(scanned,
                         [name |-> name, read |-> ln, ret |-> r,
                          early |-> early, from |-> from, to |-> Len(o),
                          count |-> cnt, opened |-> Len(opens)])
    /\ IF Len(globs) = 0
          THEN /\ Returns(r)
               /\ UNCHANGED <<matchFiles, pi>>
          ELSE /\ matchFiles' = IF r THEN matchFiles + 1 ELSE matchFiles
               /\ pi' = pi + 1
               /\ pc' = "open"
               /\ UNCHANGED <<result, exitCode, open>>

\* scanner.Scan() delivers a line and the loop body runs on it.
ScanLine ==
    /\ pc = "scan"
    /\ lineNumber < Len(src.lines)
    /\ LET st == LoopBody(Flags, printName, re, name,
                          src.lines[lineNumber + 1], lineNumber + 1, count)
       IN /\ lineNumber' = lineNumber + 1
          /\ count' = st.count
          /\ out' = Emit(stdout, out, st.write)
          /\ IF st.ctl = "return"
                THEN GrepFileReturns(st.ret, TRUE, lineNumber + 1, st.count,
                                     Emit(stdout, out, st.write))
                ELSE UNCHANGED <<scanned, matchFiles, pi, pc, result,
                                 exitCode, open>>
    /\ UNCHANGED <<Flags, pattern, globs, printName, stdout, stderr, err, re,
                   gi, paths, name, src, from, globbed, opens>>

\* A read error ends the invocation.
ScanEndAbortsOnError ==
    /\ pc = "scan"
    /\ lineNumber = Len(src.lines)
    /\ err' = Emit(stderr, err, PostLoopErr(src))
    /\ IF src.readErr
          THEN /\ Returns(FALSE)
               /\ UNCHANGED <<out, scanned, matchFiles, pi>>
          ELSE /\ out' = Emit(stdout, out,
                              PostLoopWrite(Flags, printName, name, count))
               /\ GrepFileReturns(PostLoopReturn(count), FALSE, lineNumber,
                                  count,
                                  Emit(stdout, out,
                                       PostLoopWrite(Flags, printName, name,
                                                     count)))
    /\ UNCHANGED <<Flags, pattern, globs, printName, stdout, stderr, re, gi,
                   paths, name, src, lineNumber, count, from, globbed, opens>>

\* scanner.Scan() returns false: the code after the loop runs and grepFile
\* returns.
ScanEnd ==
    /\ pc = "scan"
    /\ lineNumber = Len(src.lines)
    /\ err' = Emit(stderr, err, PostLoopErr(src))
    /\ out' = Emit(stdout, out, PostLoopWrite(Flags, printName, name, count))
    /\ GrepFileReturns(PostLoopReturn(count), FALSE, lineNumber, count,
                       Emit(stdout, out,
                            PostLoopWrite(Flags, printName, name, count)))
    /\ UNCHANGED <<Flags, pattern, globs, printName, stdout, stderr, re, gi,
                   paths, name, src, lineNumber, count, from, globbed, opens>>

-----------------------------------------------------------------------------
(* The variant of Grep and grepFile that returns an error (nil, ErrNoMatch  *)
(* or another error) instead of a boolean.  It has no -q and no -s, writes  *)
(* no error message itself, and an invocation of it is one step.           *)

ErrNoMatch == "ErrNoMatch"

NoError == "nil"

OtherError == "error"

\* The flags of the variant: Flags has neither Quiet nor NoErrorMessages.
FlagSetsE == {F \in FlagSets : ~F.Quiet /\ ~F.NoErrorMessages}

GlobsE == Globs \cup {"fn"}

ArgListsE == UNION {[1..n -> GlobsE] : n \in 0..MaxGlobs}

\* One pass of the loop body of the variant; ret is the error returned.
LoopBodyE(F, pn, R, n, line, ln, cnt) ==
    IF ~Selected(F, R, line) THEN Step("continue", NoError, cnt, <<>>)
    ELSE IF F.FilesWithoutMatch THEN Step("return", ErrNoMatch, cnt, <<>>)
    ELSE IF F.FilesWithMatch
        THEN Step("return", NoError, cnt,
                  IF pn THEN <<NameLine(n)>> ELSE <<>>)
    ELSE IF F.CountOnly THEN Step("continue", NoError, cnt + 1, <<>>)
    ELSE Step("continue", NoError, cnt + 1,
              <<BodyLine(NamePrefix(pn, n), NumPrefix(F, ln), line)>>)

\* grepFile of the variant from line ln + 1 on.
RECURSIVE ScanFromE(_, _, _, _, _, _, _, _)
ScanFromE(F, pn, R, n, f, ln, cnt, o) ==
    IF ln = Len(f.lines)
        THEN IF f.readErr THEN [err |-> OtherError, out |-> o]
             ELSE [err |-> NoError,
                   out |-> o \o PostLoopWrite(F, pn, n, cnt)]
        ELSE LET st == LoopBodyE(F, pn, R, n, f.lines[ln + 1], ln + 1, cnt)
             IN  IF st.ctl = "return"
                     THEN [err |-> st.ret, out |-> o \o st.write]
                     ELSE ScanFromE(F, pn, R, n, f, ln + 1, st.count,
                                    o \o st.write)

\* The loop over the paths ps of one glob, from the k-th on; err is
\* NoError when the loop ends without a return.
RECURSIVE PathLoopE(_, _, _, _, _, _, _)
PathLoopE(F, pn, R, ps, k, mf, o) ==
    IF k > Len(ps) THEN [err |-> NoError, matchFiles |-> mf, out |-> o]
    ELSE IF OpenFails(ps[k])
        THEN [err |-> OtherError, matchFiles |-> mf, out |-> o]
    ELSE LET r == ScanFromE(F, pn, R, ps[k], FS(ps[k]), 0, 0, o)
         IN  IF r.err = ErrNoMatch
                 THEN PathLoopE(F, pn, R, ps, k + 1, mf, r.out)
             ELSE IF r.err # NoError
                 THEN [err |-> r.err, matchFiles |-> mf, out |-> r.out]
             ELSE PathLoopE(F, pn, R, ps, k + 1, mf + 1, r.out)

\* The loop over the globs a, from the g-th on, and the return after it.
RECURSIVE GlobLoopE(_, _, _, _, _, _, _)
GlobLoopE(F, pn, R, a, g, mf, o) ==
    IF g > Len(a)
        THEN [err |-> IF mf = 0 THEN ErrNoMatch ELSE NoError, out |-> o]
    ELSE IF GlobFails(a[g]) THEN [err |-> OtherError, out |-> o]
    ELSE LET r == PathLoopE(F, pn, R, GlobPaths(a[g]), 1, mf, o)
         IN  IF r.err # NoError THEN [err |-> r.err, out |-> r.out]
             ELSE GlobLoopE(F, pn, R, a, g + 1, r.matchFiles, r.out)

\* printName of the variant, set at the head of every invocation.
PrintNameE(F, a) == ~F.NoFilename /\ Len(a) > 1

\* Grep(p, a) of the variant under flags F.
GrepE(F, p, a) ==
    IF CompileFails(p) THEN [err |-> OtherError, out |-> <<>>]
    ELSE IF Len(a) = 0
        THEN ScanFromE(F, PrintNameE(F, a), Compile(p), "", StdinFile, 0, 0,
                       <<>>)
    ELSE GlobLoopE(F, PrintNameE(F, a), Compile(p), a, 1, 0, <<>>)

\* The caller of the variant: flags set, buffers fresh.
InvokeE ==
    /\ pc = "start"
    /\ \E F \in FlagSetsE, p \in Patterns, a \in ArgListsE :
        /\ Flags' = F
        /\ pattern' = p
        /\ globs' = a
    /\ pc' = "call"
    /\ UNCHANGED <<printName, stdout, stderr, out, err, re, gi, paths, pi,
                   matchFiles, open, name, src, lineNumber, count, result,
                   exitCode, from, scanned, globbed, opens>>

\* The variant of Grep runs and returns; cmdMain maps a nil error to 0
\* and any error to 2.
CallE ==
    /\ pc = "call"
    /\ LET r == GrepE(Flags, pattern, globs)
       IN /\ result' = r.err
          /\ out' = r.out
          /\ exitCode' = IF r.err = NoError THEN 0 ELSE 2
    /\ printName' = PrintNameE(Flags, globs)
    /\ pc' = "done"
    /\ UNCHANGED <<Flags, pattern, globs, stdout, stderr, err, re, gi, paths,
                   pi, matchFiles, open, name, src, lineNumber, count, from,
                   scanned, globbed, opens>>

NextE ==
    \/ InvokeE
    \/ CallE
    \/ Finish

SpecE == Init /\ [][NextE]_vars

Next ==
    \/ Invoke
    \/ CompileFail
    \/ CompileOk
    \/ GlobErr
    \/ GlobOk
    \/ OpenFail
    \/ OpenOk
    \/ PathsDone
    \/ GrepReturn
    \/ ScanLine
    \/ ScanEnd
    \/ Finish

Spec == Init /\ [][Next]_vars

-----------------------------------------------------------------------------
(* Vocabulary of the properties, stated without the operators of grepFile. *)

Done == pc = "done"

ValidPattern == ~CompileFails(pattern)

\* Past the compilation of a valid pattern.
Compiled == ValidPattern /\ pc \notin {"start", "compile"}

FileOf(n) == IF n = "" THEN StdinFile ELSE FS(n)

\* A line is selected when it matches and -v is not set, or does not match
\* and -v is set.
IsSelected(line) ==
    \/ MatchString(Compile(pattern), line) /\ ~Flags.Invert
    \/ ~MatchString(Compile(pattern), line) /\ Flags.Invert

SelectedIn(n) ==
    {i \in 1..Len(FileOf(n).lines) : IsSelected(FileOf(n).lines[i])}

HasSelected(n) == SelectedIn(n) # {}

FirstSelected(n) ==
    CHOOSE i \in SelectedIn(n) : \A j \in SelectedIn(n) : i <= j

RECURSIVE Flatten(_)
Flatten(ss) == IF ss = <<>> THEN <<>> ELSE Head(ss) \o Flatten(Tail(ss))

\* The sources the path arguments a stand for, in order: the paths of each
\* well-formed glob that can be opened, or standard input without arguments.
SourcesOf(a) ==
    IF a = <<>> THEN <<"">>
    ELSE Flatten([i \in 1..Len(a) |->
                    IF GlobFails(a[i]) THEN <<>>
                    ELSE SelectSeq(PathsFor(a[i]), LAMBDA n : ~OpenFails(n))])

\* The selected lines of source n, in line order, each with its source.
SelectedOf(n) ==
    LET ls == FileOf(n).lines
    IN  Flatten([i \in 1..Len(ls) |->
                    IF IsSelected(ls[i])
                        THEN << [src |-> n, text |-> ls[i], at |-> i] >>
                        ELSE <<>>])

\* The selected lines of all the sources of this invocation.
AllSelected == Flatten([k \in 1..Len(SourcesOf(globs)) |->
                           SelectedOf(SourcesOf(globs)[k])])

DefaultMode ==
    /\ ~Flags.CountOnly
    /\ ~Flags.FilesWithMatch
    /\ ~Flags.FilesWithoutMatch
    /\ ~Flags.Quiet

\* What was written for the k-th source grepFile returned for.
Segment(k) == SubSeq(out, scanned[k].from + 1, scanned[k].to)

ScannedNames == [k \in 1..Len(scanned) |-> scanned[k].name]

-----------------------------------------------------------------------------
\* C1: in default output mode, what standard output holds is at every moment
\* a prefix of the selected lines of the sources, taken in source order and,
\* within a source, in line order, every written line being a line body of
\* the source it stands for; when Grep has returned it holds all of them,
\* and grepFile has run on exactly the sources of the arguments, in order.
C1_DefaultOutput ==
    (DefaultMode /\ Compiled) =>
        /\ Len(out) <= Len(AllSelected)
        /\ \A i \in 1..Len(out) :
              /\ out[i].kind = "line"
              /\ out[i].text = AllSelected[i].text
              /\ out[i].name \in {<<>>, <<AllSelected[i].src>>}
        /\ Done => /\ Len(out) = Len(AllSelected)
                   /\ ScannedNames = SourcesOf(globs)

\* Two sources have both contributed lines, and a line was left out.
C1_Witness ==
    /\ Done /\ DefaultMode /\ ValidPattern
    /\ Len(scanned) = 2
    /\ \E i, j \in 1..Len(out) : i < j /\ out[i].name # out[j].name
    /\ \E k \in 1..2 :
          Cardinality(SelectedIn(scanned[k].name))
              < Len(FileOf(scanned[k].name).lines)

\* C2: without -L, Grep returns true exactly when the pattern is valid and
\* one of the sources that could be opened holds a selected line.
C2_ReturnValue ==
    (Done /\ ~Flags.FilesWithoutMatch) =>
        (result <=>
            /\ ValidPattern
            /\ \E k \in 1..Len(SourcesOf(globs)) :
                  HasSelected(SourcesOf(globs)[k]))

\* Grep returned true although a path could not be opened and another
\* source held no selected line.
C2_Witness ==
    /\ Done /\ ~Flags.FilesWithoutMatch /\ result
    /\ \E i \in 1..Len(opens) : OpenFails(opens[i])
    /\ \E k \in 1..Len(scanned) : ~HasSelected(scanned[k].name)

AnySourceSelected ==
    \E k \in 1..Len(SourcesOf(globs)) : HasSelected(SourcesOf(globs)[k])

C5_Original ==
    (Flags.FilesWithoutMatch /\ Compiled) =>
        /\ \A i \in 1..Len(out) : out[i].kind # "line"
        /\ \A k \in 1..Len(scanned) :
              LET n == scanned[k].name
              IN  IF HasSelected(n)
                      THEN /\ Segment(k) = <<>>
                           /\ scanned[k].read = FirstSelected(n)
                      ELSE /\ Segment(k) = <<NameLine(n)>>
                           /\ scanned[k].read = Len(FileOf(n).lines)

\* C6 as stated: under -l (without -L, -q) neither a line body nor a count
\* is written; for a source with a selected line the name is written once
\* and no line after the first selected one is read; for the other sources
\* nothing is written.
C6_Original ==
    (Flags.FilesWithMatch /\ ~Flags.FilesWithoutMatch /\ ~Flags.Quiet
        /\ Compiled) =>
        /\ \A i \in 1..Len(out) : out[i].kind = "name"
        /\ \A k \in 1..Len(scanned) :
              LET n == scanned[k].name
              IN  IF HasSelected(n)
                      THEN /\ Segment(k) = <<NameLine(n)>>
                           /\ scanned[k].read = FirstSelected(n)
                      ELSE Segment(k) = <<>>

\* C7: when the pattern does not compile, Grep returns false having written
\* the syntax error, and only it, to the buffer behind standard error,
\* whatever the flags; no glob was expanded, no path opened, no source
\* scanned, and nothing was written to standard output.
C7_InvalidPattern ==
    (CompileFails(pattern) /\ Done) =>
        /\ err = <<ErrMsg("compile", "")>>
        /\ globbed = <<>>
        /\ opens = <<>>
        /\ scanned = <<>>
        /\ open = <<>>
        /\ out = <<>>
        /\ ~result

\* An invalid pattern under -q and -s, with path arguments.
C7_Witness ==
    /\ Done /\ CompileFails(pattern)
    /\ Flags.Quiet /\ Flags.NoErrorMessages
    /\ Len(globs) = MaxGlobs
    /\ err # <<>>

\* A path argument that matches nothing and cannot be opened.
CannotOpen(g) == ~GlobFails(g) /\ GlobPaths(g) = <<>> /\ OpenFails(g)

\* The path arguments without those that cannot be opened.
Others(a) == SelectSeq(a, LAMBDA g : ~CannotOpen(g))

OpenErrors == SelectSeq(err, LAMBDA m : m.kind = "open")

HasFailingPath ==
    /\ \E i \in 1..Len(globs) : CannotOpen(globs[i])
    /\ Others(globs) # <<>>

\* What C8 says of the sources scanned and of the error sink: all the
\* sources that can be opened were scanned, in order; every failed open is
\* reported, in order, unless -s or -q is set, and then the error sink holds
\* no such message.
C8_SkippedAndReported ==
    /\ ScannedNames = SourcesOf(globs)
    /\ IF Flags.Quiet \/ Flags.NoErrorMessages
          THEN err = <<>>
          ELSE [i \in 1..Len(OpenErrors) |-> OpenErrors[i].name]
                  = SelectSeq(globs, CannotOpen)

C9_Original ==
    (Done /\ CompileFails(pattern)) =>
        /\ exitCode # cmdMainExit(TRUE)
        /\ exitCode # cmdMainExit(GrepReturnValue(0))

\* C10 as stated: at most one source stream is open at any moment.
C10_Original == Len(open) <= 1

\* More than one source was supplied: more than one path argument, or one
\* glob with more than one match.
SuppliedMany ==
    \/ Len(globs) > 1
    \/ Len(globs) = 1 /\ Len(GlobPaths(globs[1])) > 1

\* C11 as stated: while a source is scanned printName is true exactly when
\* more than one source was supplied and -h is not set, in every invocation;
\* an invocation on standard input writes neither a name prefix nor a name
\* line.
C11_Original ==
    Compiled =>
        /\ pc = "scan" => (printName <=> (SuppliedMany /\ ~Flags.NoFilename))
        /\ globs = <<>> => \A i \in 1..Len(out) : out[i].name = <<>>

\* C12: with -n in line-printing mode every written line carries the number
\* of its line among all the lines of its own source, counted from 1, after
\* the name prefix if there is one.
C12_LineNumbers ==
    (DefaultMode /\ Flags.LineNumbers /\ Compiled) =>
        /\ Len(out) <= Len(AllSelected)
        /\ \A i \in 1..Len(out) :
              /\ out[i] = BodyLine(out[i].name, <<AllSelected[i].at>>,
                                   AllSelected[i].text)
              /\ out[i].name \in {<<>>, <<AllSelected[i].src>>}

\* Line 3 of one source was written, then line 1 of the next source.
C12_Witness ==
    /\ Done /\ DefaultMode /\ Flags.LineNumbers /\ ValidPattern
    /\ \E i \in 1..Len(out) : \E j \in (i + 1)..Len(out) :
          /\ out[i].num = <<3>>
          /\ out[j].num = <<1>>
          /\ out[i].name # out[j].name
          /\ out[i].name # <<>>

\* C13 as stated: under -q (without -L) the source that yields a selected
\* line is the last one read; after it no path is opened and no source is
\* scanned, and Grep returns true.
C13_Original ==
    (Flags.Quiet /\ ~Flags.FilesWithoutMatch /\ Compiled) =>
        \A k \in 1..Len(scanned) :
            scanned[k].ret =>
                /\ k = Len(scanned)
                /\ pc # "scan"
                /\ Len(opens) = scanned[k].opened
                /\ Done => result

\* The flags with -l, -c and -n taken away.
WithoutListCountNumber ==
    [Flags EXCEPT !.FilesWithMatch = FALSE, !.CountOnly = FALSE,
                  !.LineNumbers = FALSE]

\* C14: when -L is set and -q is not, standard output and the value
\* returned are those of the invocation with -L and without -l, -c and -n
\* (the other flags, the pattern and the arguments being the same); neither
\* a count line nor a line body is written.
C14_ListWithoutWins ==
    (Done /\ Flags.FilesWithoutMatch /\ ~Flags.Quiet) =>
        /\ out = GrepRun(WithoutListCountNumber, pattern, globs, printName).out
        /\ result
              = GrepRun(WithoutListCountNumber, pattern, globs, printName).ret
        /\ \A i \in 1..Len(out) : out[i].kind = "name"

\* -L with -l, -c and -n: one source was listed, the scan of another one
\* stopped at a selected line.
C14_Witness ==
    /\ Done /\ ValidPattern
    /\ Flags.FilesWithoutMatch /\ ~Flags.Quiet
    /\ Flags.FilesWithMatch /\ Flags.CountOnly /\ Flags.LineNumbers
    /\ out # <<>>
    /\ \E k \in 1..Len(scanned) : scanned[k].early

\* The sources whose reading failed, grepFile having reached the end of the
\* lines delivered.
ReadFailed(k) == FileOf(scanned[k].name).readErr /\ ~scanned[k].early

ReadErrors == SelectSeq(err, LAMBDA m : m.kind = "read")

\* C15: when reading a source fails, an error message is written to stderr
\* (and kept unless stderr is the discard sink), the lines written for the
\* source stay, the value returned for the source and the count line or the
\* name are those of the lines read before the failure, and the sources
\* after it are scanned.
C15_ReadError ==
    Compiled =>
        /\ ReadErrors
              = Emit(stderr, <<>>,
                     Flatten([k \in 1..Len(scanned) |->
                                 IF ReadFailed(k)
                                     THEN <<ErrMsg("read", "")>> ELSE <<>>]))
        /\ \A k \in 1..Len(scanned) :
              ReadFailed(k) =>
                  LET n == scanned[k].name
                      c == Cardinality(SelectedIn(n))
                      out0 == stdout = "buffer"
                  IN  /\ scanned[k].read = Len(FileOf(n).lines)
                      /\ scanned[k].ret = (c > 0)
                      /\ DefaultMode =>
                            [i \in 1..Len(Segment(k)) |-> Segment(k)[i].text]
                               = [i \in 1..Len(SelectedOf(n)) |->
                                     SelectedOf(n)[i].text]
                      /\ (Flags.CountOnly /\ ~Flags.FilesWithoutMatch
                            /\ c > 0 /\ out0) =>
                            /\ Len(Segment(k)) = 1
                            /\ Segment(k)[1].kind = "count"
                            /\ Segment(k)[1].num = <<c>>
                      /\ (Flags.FilesWithoutMatch /\ printName /\ out0) =>
                            Segment(k) = <<NameLine(n)>>
        /\ Done => ScannedNames = SourcesOf(globs)

\* Reading the first source failed after a line of it was written; the
\* error was reported and a second source was scanned.
C15_Witness ==
    /\ Done /\ DefaultMode /\ ValidPattern
    /\ Len(scanned) = 2
    /\ ReadFailed(1)
    /\ Segment(1) # <<>>
    /\ ReadErrors # <<>>
    /\ ~ReadFailed(2)

OpensOf(a) ==
    Flatten([i \in 1..Len(a) |->
                IF GlobFails(a[i]) THEN <<>>
                ELSE IF GlobPaths(a[i]) = <<>> THEN <<a[i]>>
                ELSE GlobPaths(a[i])])

\* The messages about globs and paths the arguments a stand for.
GlobAndOpenErrorsOf(a) ==
    Flatten([i \in 1..Len(a) |->
                IF GlobFails(a[i]) THEN <<ErrMsg("glob", a[i])>>
                ELSE IF GlobPaths(a[i]) = <<>> /\ OpenFails(a[i])
                    THEN <<ErrMsg("open", a[i])>>
                ELSE <<>>])

\* C18: when Grep has returned on a valid pattern, every glob was expanded,
\* in order; a malformed glob gave no open attempt and a glob without a
\* match gave one, on the glob itself; the messages for them were written to
\* stderr in order (and kept unless stderr is the discard sink); the sources
\* of all the other globs were scanned.
C18_Globs ==
    (Done /\ ValidPattern /\ globs # <<>>) =>
        /\ globbed = globs
        /\ opens = OpensOf(globs)
        /\ SelectSeq(err, LAMBDA m : m.kind \in {"glob", "open"})
              = Emit(stderr, <<>>, GlobAndOpenErrorsOf(globs))
        /\ ScannedNames = SourcesOf(globs)

\* A malformed glob came first and was reported; a source after it was
\* scanned.
C18_Witness ==
    /\ Done /\ ValidPattern
    /\ Len(globs) = MaxGlobs
    /\ GlobFails(globs[1])
    /\ \E i \in 1..Len(err) : err[i].kind = "glob"
    /\ scanned # <<>>

SummaryMode ==
    Flags.CountOnly \/ Flags.FilesWithMatch \/ Flags.FilesWithoutMatch

\* C20: in a summary mode (-c, -l or -L) at most one line is written for a
\* source, and none before its scan ends.
C20_OneLinePerSource ==
    (SummaryMode /\ Compiled) =>
        /\ \A k \in 1..Len(scanned) : Len(Segment(k)) <= 1
        /\ pc = "scan" => Len(out) = from

\* -c -l: the scan of a source with two selected lines stopped at the first
\* one with the name written, and nothing else.
C20_Witness ==
    /\ Done /\ ValidPattern
    /\ Flags.CountOnly /\ Flags.FilesWithMatch /\ ~Flags.FilesWithoutMatch
    /\ \E k \in 1..Len(scanned) :
          /\ scanned[k].early
          /\ Cardinality(SelectedIn(scanned[k].name)) > 1
          /\ Len(Segment(k)) = 1
          /\ Segment(k)[1].kind = "name"

\* The files the path arguments stand for, when every argument is a glob
\* with a match.
FilesOfArgs == Flatten([i \in 1..Len(globs) |-> GlobPaths(globs[i])])

\* One or more files, all of them readable to their end.
ReadableFiles ==
    /\ globs # <<>>
    /\ \A i \in 1..Len(globs) :
          ~GlobFails(globs[i]) /\ GlobPaths(globs[i]) # <<>>
    /\ \A i \in 1..Len(FilesOfArgs) :
          ~OpenFails(FilesOfArgs[i]) /\ ~FS(FilesOfArgs[i]).readErr

\* C19 as stated, of the variant returning an error: on a valid pattern and
\* readable files, without -L it returns ErrNoMatch exactly when no file
\* holds a selected line and nil exactly when one does; under -L it returns
\* ErrNoMatch exactly when every file holds a selected line.
C19_Original ==
    (Done /\ ValidPattern /\ ReadableFiles) =>
        LET some == \E i \in 1..Len(FilesOfArgs) : HasSelected(FilesOfArgs[i])
            every == \A i \in 1..Len(FilesOfArgs) : HasSelected(FilesOfArgs[i])
        IN  IF Flags.FilesWithoutMatch
                THEN result = ErrNoMatch <=> every
                ELSE /\ result = ErrNoMatch <=> ~some
                     /\ result = NoError <=> some

====
